---- MODULE Spec2Model ----
(***************************************************************************)
(* Model of wordpress_scraper: the orchestrator run_scraper (cli.py), the  *)
(* page fetcher WordPressClient (api_client.py), the progress store        *)
(* MetadataManager (metadata.py) and the entity store DatabaseManager      *)
(* (database.py).                                                          *)
(*                                                                         *)
(* Python values are modelled as follows.  An Optional[str] is a string,   *)
(* with None the distinguished string below (the empty string "" is a      *)
(* different, also falsy, value).  An Optional[int] / Optional timestamp   *)
(* that the code only ever tests for truthiness is an integer with None    *)
(* as 0; ISO-8601 timestamps of equal format compare as strings the way    *)
(* the positive integers used here compare.                                *)
(***************************************************************************)
EXTENDS Integers, Sequences, FiniteSets, TLC

VARIABLES
    meta,                 \* scrape_metadata table: sequence of rows, row id = index
    posts,                \* posts table: set of rows
    pc,                   \* position of the process in main / run_scraper
    result,               \* what run_scraper returned: "none", "True", "False", "interrupted"
    config,               \* the ScraperConfig of the run (start_page is mutated by resume)
    update,               \* run_scraper's local `update`
    resume,               \* run_scraper's local `resume`
    mode,                 \* which fetch loop is running: "none", "full", "update"
    all_posts_raw,        \* run_scraper's list of raw posts
    page_posts,           \* the page the generator has just yielded
    current_page,         \* run_scraper's page counter
    last_page_completed,  \* run_scraper's last checkpointed page
    page,                 \* fetch_all's page counter
    pages_fetched,        \* fetch_all's count of yielded pages
    max_pages,            \* fetch_all's max_pages argument (NoCeiling = None)
    additional_params,    \* fetch_all's additional_params
    processed_posts,      \* run_scraper's list of processed posts
    latest_modified_gmt,  \* run_scraper's maximum modified_gmt (0 = None)
    client_open,          \* the requests session is open
    db_open,              \* DatabaseManager.connection is not None
    meta_open,            \* MetadataManager.connection is not None
    log,                  \* history: the calls of the current run, in order
    meta0,                \* history: meta when the current run started
    posts0,               \* history: posts when the current run started
    session,              \* history: who wrote the progress row last (see below)
    session0              \* history: session when the current run started

durable == <<meta, posts>>
handles == <<client_open, db_open, meta_open>>
flags   == <<update, resume>>
genvars == <<page, pages_fetched, max_pages, additional_params>>
loopvars == <<all_posts_raw, page_posts, current_page, last_page_completed>>
procvars == <<processed_posts, latest_modified_gmt>>
history == <<meta0, posts0, session0>>
vars == <<meta, posts, pc, result, config, update, resume, mode, all_posts_raw,
          page_posts, current_page, last_page_completed, page, pages_fetched,
          max_pages, additional_params, processed_posts, latest_modified_gmt,
          client_open, db_open, meta_open, log, meta0, posts0, session, session0>>

----------------------------------------------------------------------------
(* Bounds of the model *)

\* number of posts the remote site holds
NumPosts == 4
\* largest --start-page a run is configured with
MaxStartPage == 2
\* largest --max-pages a run is configured with
MaxMaxPages == 1
\* the --per-page every run is configured with
PageSize == 2

\* largest post id, and longest batch, of a direct DatabaseManager call
MaxPostId == 2
MaxBatch == 2

\* direct MetadataManager calls: the largest page number passed
MaxMetaPage == 2

\* direct WordPressClient calls: how many answers the server has ready for
\* the attempts of one request, and the largest page asked for
MaxAnswers == 5
MaxPage == 2

\* the site URL, and the search phrases a run may be configured with
Urls == {"https://example.com/"}

----------------------------------------------------------------------------
(* Python values *)

None == "None"

Truthy(s) == s /= None /\ s /= ""

Min(a, b) == IF a <= b THEN a ELSE b

\* max_pages: Optional[int] = None, as an integer no --max-pages can be
NoCeiling == -1

\* the truth value of an Optional[int]: None and 0 are falsy
TruthyInt(n) == n /= NoCeiling /\ n /= 0

Searches == {None, "", "drone", "satellite"}

\* the totals the site may report: none, or a count (right or wrong)
ReportedTotals == {0, NumPosts + 1}

----------------------------------------------------------------------------
(* The remote site: what session.get returns for a page request.           *)
(* Post i of the site has id i; the listing is ordered by id.              *)

RemoteModified(i) == (i + 1) \div 2

RemoteMatches(i, search) ==
    CASE search = "drone"     -> i % 2 = 1
      [] search = "satellite" -> i <= 2
      [] OTHER                -> TRUE

RemotePost(i) ==
    [id |-> i, modified_gmt |-> RemoteModified(i), title |-> [rendered |-> "t"]]

\* the posts selected by the query parameters search and modified_after
RemoteListing(params) ==
    LET F[n \in 0..NumPosts] ==
            IF n = 0 THEN <<>>
            ELSE IF RemoteMatches(n, params.search)
                    /\ RemoteModified(n) > params.modified_after
                 THEN Append(F[n - 1], RemotePost(n))
                 ELSE F[n - 1]
    IN  F[NumPosts]

\* the response of the site to GET ?per_page=&page=&search=&modified_after=
\* (200 with the page, or 400 rest_post_invalid_page_number past the last page)
RemoteResponse(pg, per_page, params) ==
    LET listing == RemoteListing(params)
        lo == (pg - 1) * per_page + 1
        hi == Min(pg * per_page, Len(listing))
    IN  IF pg > 1 /\ lo > Len(listing)
        THEN [status |-> 400, json |-> TRUE, body |-> <<>>]
        ELSE [status |-> 200, json |-> TRUE, body |-> SubSeq(listing, lo, hi)]

\* what one page request can come back with: the site's answer, a client
\* error, a retryable status after the adapter's retries are used up, a
\* body that is not JSON, or no response at all (status 0)
Responses(pg, per_page, params) ==
    { RemoteResponse(pg, per_page, params) }
    \cup { [status |-> s, json |-> TRUE, body |-> <<>>] : s \in {404, 500} }
    \cup { [status |-> 200, json |-> FALSE, body |-> <<>>],
           [status |-> 0, json |-> FALSE, body |-> <<>>] }

----------------------------------------------------------------------------
(* WordPressClient *)

\* mutant: the page size is passed on as configured
ClientPerPage_NoCap(per_page) == per_page

ClientPerPage(per_page) == Min(per_page, 100)

\* _create_session: Retry(total=3, status_forcelist=[...]) mounted on the
\* session's adapter
RetryTotal == 3

status_forcelist == {429, 500, 502, 503, 504}

\* an attempt the adapter retries: no response (0) or a status of the list
Retryable(status) == status = 0 \/ status \in status_forcelist

\* mutant: the adapter retries as long as the server keeps failing
session_get_NoRetryCeiling(answers) ==
    LET F[i \in 1..Len(answers)] ==
            IF Retryable(answers[i])
            THEN IF i = Len(answers)
                 THEN [attempts |-> i, status |-> 0]
                 ELSE F[i + 1]
            ELSE [attempts |-> i, status |-> answers[i]]
    IN  F[1]

\* session.get through the adapter: answers[i] is what the server does on
\* attempt i.  Each retry takes one from Retry.total; when none is left the
\* adapter raises (RetryError or ConnectionError, both RequestException:
\* status 0).  F[k] is the outcome from the attempt that has k retries left.
session_get(answers) ==
    LET F[k \in 0..RetryTotal] ==
            LET i == RetryTotal + 1 - k
            IN  IF Retryable(answers[i])
                THEN IF k = 0
                     THEN [attempts |-> i, status |-> 0]
                     ELSE F[k - 1]
                ELSE [attempts |-> i, status |-> answers[i]]
    IN  F[RetryTotal]

\* fetch_page's classification of a response: the list it returns, or the
\* WordPressAPIError it raises
FetchPageResult(resp) ==
    IF resp.status = 0 THEN [kind |-> "error", posts |-> <<>>]
    ELSE IF resp.status = 200
         THEN IF resp.json THEN [kind |-> "posts", posts |-> resp.body]
                           ELSE [kind |-> "error", posts |-> <<>>]
    ELSE IF resp.status = 400 THEN [kind |-> "posts", posts |-> <<>>]
    ELSE [kind |-> "error", posts |-> <<>>]

\* additional_params of the full scrape (cli.py) and of fetch_modified_since
FullParams(search) ==
    [search |-> IF Truthy(search) THEN search ELSE None, modified_after |-> 0]

\* mutant: the cutover timestamp is not passed on
ModifiedSinceParams_NoCutover(modified_after, search) ==
    [search |-> IF Truthy(search) THEN search ELSE None, modified_after |-> 0]

ModifiedSinceParams(modified_after, search) ==
    [search |-> IF Truthy(search) THEN search ELSE None,
     modified_after |-> modified_after]

----------------------------------------------------------------------------
(* MetadataManager: the scrape_metadata table.  last_scrape_date (the wall *)
(* clock of the write) is not modelled.                                    *)

\* mutant: the lookup of the source's row never finds it
LatestId_NeverFinds(m, url) == 0

\* SELECT id ... WHERE wordpress_url = ? ORDER BY id DESC LIMIT 1 (0: no row)
LatestId(m, url) ==
    LET ids == { i \in DOMAIN m : m[i].wordpress_url = url }
    IN  IF ids = {} THEN 0 ELSE CHOOSE i \in ids : \A j \in ids : j <= i

HasMetadata(m, url) == LatestId(m, url) /= 0

get_latest_metadata(m, url) == m[LatestId(m, url)]

get_latest_modified_date(m, url) ==
    IF HasMetadata(m, url) THEN get_latest_metadata(m, url).latest_post_modified ELSE 0

get_last_page_scraped(m, url) ==
    IF HasMetadata(m, url) THEN get_latest_metadata(m, url).last_page_scraped ELSE 0

\* mutant: the getter selects last_page_scraped
get_next_page_to_fetch_LastPage(m, url) ==
    IF HasMetadata(m, url) THEN get_latest_metadata(m, url).last_page_scraped ELSE 0

get_next_page_to_fetch(m, url) ==
    IF HasMetadata(m, url) THEN get_latest_metadata(m, url).next_page_to_fetch ELSE 0

get_search_query(m, url) ==
    IF HasMetadata(m, url) THEN get_latest_metadata(m, url).search_query ELSE None

\* mutant: the UPDATE branch forgets next_page_to_fetch
update_progress_StaleNextPage(m, url, pg, posts_count) ==
    LET id == LatestId(m, url)
    IN  IF id /= 0
        THEN [m EXCEPT ![id] = [@ EXCEPT !.total_posts_scraped = posts_count,
                                         !.last_page_scraped = pg,
                                         !.scrape_status = "in_progress"]]
        ELSE Append(m, [wordpress_url |-> url,
                        latest_post_modified |-> 0,
                        total_posts_scraped |-> posts_count,
                        last_page_scraped |-> pg,
                        next_page_to_fetch |-> pg + 1,
                        search_query |-> None,
                        scrape_status |-> "in_progress"])

update_progress(m, url, pg, posts_count) ==
    LET id == LatestId(m, url)
        next_page == pg + 1
    IN  IF id /= 0
        THEN [m EXCEPT ![id] = [@ EXCEPT !.total_posts_scraped = posts_count,
                                         !.last_page_scraped = pg,
                                         !.next_page_to_fetch = next_page,
                                         !.scrape_status = "in_progress"]]
        ELSE Append(m, [wordpress_url |-> url,
                        latest_post_modified |-> 0,
                        total_posts_scraped |-> posts_count,
                        last_page_scraped |-> pg,
                        next_page_to_fetch |-> next_page,
                        search_query |-> None,
                        scrape_status |-> "in_progress"])

\* mutant: the default next_page is 1 whatever last_page is
save_scrape_metadata_NextPageOne(m, url, latest_post_modified, total_posts, last_page, next_page, search_query, status) ==
    LET id == LatestId(m, url)
        np == IF next_page = 0 THEN 1 ELSE next_page
        row == [wordpress_url |-> url,
                latest_post_modified |-> latest_post_modified,
                total_posts_scraped |-> total_posts,
                last_page_scraped |-> last_page,
                next_page_to_fetch |-> np,
                search_query |-> search_query,
                scrape_status |-> status]
    IN  IF id /= 0 THEN [m EXCEPT ![id] = row] ELSE Append(m, row)

\* next_page = 0 stands for the default next_page=None
save_scrape_metadata(m, url, latest_post_modified, total_posts, last_page, next_page, search_query, status) ==
    LET id == LatestId(m, url)
        np == IF next_page = 0
              THEN (IF last_page > 0 THEN last_page + 1 ELSE 1)
              ELSE next_page
        row == [wordpress_url |-> url,
                latest_post_modified |-> latest_post_modified,
                total_posts_scraped |-> total_posts,
                last_page_scraped |-> last_page,
                next_page_to_fetch |-> np,
                search_query |-> search_query,
                scrape_status |-> status]
    IN  IF id /= 0 THEN [m EXCEPT ![id] = row] ELSE Append(m, row)

----------------------------------------------------------------------------
(* DatabaseManager: the posts table (id INTEGER PRIMARY KEY) *)

\* mutant: a plain INSERT into a table that does not enforce the key
INSERT_POST_SQL_NoReplace(tbl, row) == tbl \cup { row }

\* INSERT OR REPLACE INTO posts: a row with the same id is deleted first
INSERT_POST_SQL(tbl, row) == { r \in tbl : r.id /= row.id } \cup { row }

insert_post(tbl, post_data) == INSERT_POST_SQL(tbl, post_data)

\* mutant: the cursor's context manager commits whatever was executed
get_cursor_NoRollback(tbl, work, failed) == work

\* get_cursor: the statements of the `with` body ran on the connection's
\* open transaction and took the table from tbl to work; commit when the
\* body ended normally, rollback (and re-raise) when it raised
get_cursor(tbl, work, failed) == IF failed THEN tbl ELSE work

\* cursor.executemany(INSERT_POST_SQL, ...): the first n rows, in list order
executemany(tbl, posts_data, n) ==
    LET F[k \in 0..n] ==
            IF k = 0 THEN tbl ELSE INSERT_POST_SQL(F[k - 1], posts_data[k])
    IN  F[n]

\* executemany in list order, committed as one transaction
insert_posts_batch(tbl, posts_data) ==
    get_cursor(tbl, executemany(tbl, posts_data, Len(posts_data)), FALSE)

\* insert_posts_batch when writing row k raises: rows 1..k-1 were executed
insert_posts_batch_raises(tbl, posts_data, k) ==
    get_cursor(tbl, executemany(tbl, posts_data, k - 1), TRUE)

get_post_count(tbl) == Cardinality(tbl)

get_all_post_ids(tbl) == { r.id : r \in tbl }

----------------------------------------------------------------------------
(* utils *)

extract_rendered_field(field) == field.rendered

extract_post_fields(post) ==
    [id |-> post.id, modified_gmt |-> post.modified_gmt,
     title |-> extract_rendered_field(post.title)]

----------------------------------------------------------------------------
(* run_scraper *)

\* mutant: the check lacks its third branch (two different phrases)
SearchMismatch_TwoBranches(stored_search, search) ==
    /\ stored_search /= search
    /\ \/ Truthy(stored_search) /\ ~Truthy(search)
       \/ ~Truthy(stored_search) /\ Truthy(search)

\* the search consistency check of the resume and update branches: TRUE when
\* one of its three branches returns False
SearchMismatch(stored_search, search) ==
    /\ stored_search /= search
    /\ \/ Truthy(stored_search) /\ ~Truthy(search)
       \/ ~Truthy(stored_search) /\ Truthy(search)
       \/ Truthy(stored_search) /\ Truthy(search)

\* the maximum truthy modified_gmt of the processed posts (0 = None)
LatestModifiedGmt(ps) ==
    LET F[n \in 0..Len(ps)] ==
            IF n = 0 THEN 0
            ELSE IF ps[n].modified_gmt /= 0
                    /\ (F[n - 1] = 0 \/ ps[n].modified_gmt > F[n - 1])
                 THEN ps[n].modified_gmt
                 ELSE F[n - 1]
    IN  F[Len(ps)]

ProcessAll(raw) == [n \in 1..Len(raw) |-> extract_post_fields(raw[n])]

\* log entries: a GET the client sent (with the status that came back and
\* what the caller made of it: "posts", "empty" or "error"), or a call
GetEvent(kind, pg, per_page, params, status, outcome) ==
    [ev |-> "GET", kind |-> kind, page |-> pg, per_page |-> per_page,
     search |-> params.search, modified_after |-> params.modified_after,
     status |-> status, outcome |-> outcome]

CallEvent(name, pg) ==
    [ev |-> name, kind |-> "call", page |-> pg, per_page |-> 0,
     search |-> None, modified_after |-> 0, status |-> 0, outcome |-> "ok"]

\* the probe of get_total_posts_count as the log names it, with the total
\* the site reported in X-WP-Total (0: no header, or the probe failed)
TotalEvent(total) ==
    [ev |-> "GET", kind |-> "count", page |-> 0, per_page |-> 1,
     search |-> None, modified_after |-> 0, status |-> 200, outcome |-> "ok",
     total |-> total]

\* fetch_page's outcome as the log names it
Outcome(r) ==
    IF r.kind = "error" THEN "error"
    ELSE IF r.posts = <<>> THEN "empty" ELSE "posts"

\* history of the progress row: the search phrase of the run that wrote it
\* last, and whether that run was a full scrape from page 1 that a fetch
\* error then aborted
NoSession == [search |-> None, aborted |-> FALSE]

NoConfig ==
    [wordpress_url |-> CHOOSE u \in Urls : TRUE, search |-> None,
     start_page |-> 1, max_pages |-> NoCeiling, per_page |-> PageSize,
     update |-> FALSE, resume |-> FALSE]

NoParams == [search |-> None, modified_after |-> 0]

\* leaving the `with WordPressClient(...)` block: return or exception
Return(val) ==
    /\ pc' = "done"
    /\ result' = val
    /\ client_open' = FALSE

Init ==
    /\ meta = <<>>
    /\ posts = {}
    /\ pc = "idle"
    /\ result = "none"
    /\ config = NoConfig
    /\ update = FALSE
    /\ resume = FALSE
    /\ mode = "none"
    /\ all_posts_raw = <<>>
    /\ page_posts = <<>>
    /\ current_page = 0
    /\ last_page_completed = 0
    /\ page = 0
    /\ pages_fetched = 0
    /\ max_pages = NoCeiling
    /\ additional_params = NoParams
    /\ processed_posts = <<>>
    /\ latest_modified_gmt = 0
    /\ client_open = FALSE
    /\ db_open = FALSE
    /\ meta_open = FALSE
    /\ log = <<>>
    /\ meta0 = <<>>
    /\ posts0 = {}
    /\ session = NoSession
    /\ session0 = NoSession

\* main: a new process parses its arguments, builds the configuration and
\* calls run_scraper, which opens the client
StartRun ==
    /\ pc = "idle"
    /\ \E url \in Urls, search \in Searches, sp \in 1..MaxStartPage,
          mp \in {NoCeiling} \cup 0..MaxMaxPages, u \in BOOLEAN, r \in BOOLEAN :
          /\ config' = [wordpress_url |-> url, search |-> search,
                        start_page |-> sp, max_pages |-> mp, per_page |-> PageSize,
                        update |-> u, resume |-> r]
          /\ update' = u
          /\ resume' = r
    /\ pc' = "validate"
    /\ client_open' = TRUE
    /\ UNCHANGED <<durable, result, mode, loopvars, genvars, procvars,
                   db_open, meta_open, log, history, session>>

\* client.validate_endpoint()
ValidateEndpoint ==
    /\ pc = "validate"
    /\ \E ok \in BOOLEAN :
          /\ log' = Append(log, GetEvent("validate", 0, 1, NoParams,
                                         IF ok THEN 200 ELSE 0,
                                         IF ok THEN "ok" ELSE "error"))
          /\ IF ok
             THEN pc' = "open" /\ UNCHANGED <<result, client_open>>
             ELSE Return("False")
    /\ UNCHANGED <<durable, config, flags, mode, loopvars, genvars, procvars,
                   db_open, meta_open, history, session>>

\* MetadataManager(...).create_table(); DatabaseManager(...).connect();
\* create_table(): CREATE TABLE IF NOT EXISTS changes no row
OpenStores ==
    /\ pc = "open"
    /\ meta_open' = TRUE
    /\ db_open' = TRUE
    /\ log' = log \o <<CallEvent("create_table_metadata", 0),
                       CallEvent("create_table_posts", 0)>>
    /\ pc' = "resume"
    /\ UNCHANGED <<durable, result, config, flags, mode, loopvars, genvars,
                   procvars, client_open, history, session>>

\* if resume: ...
HandleResume ==
    /\ pc = "resume"
    /\ IF ~resume
       THEN /\ pc' = "update"
            /\ UNCHANGED <<result, client_open, config, resume, log>>
       ELSE LET next_page == get_next_page_to_fetch(meta, config.wordpress_url)
                last_page == get_last_page_scraped(meta, config.wordpress_url)
                stored_search == get_search_query(meta, config.wordpress_url)
            IN  /\ log' = Append(log, CallEvent("read_metadata", 0))
                /\ IF SearchMismatch(stored_search, config.search)
                   THEN /\ Return("False")
                        /\ UNCHANGED <<config, resume>>
                   ELSE /\ pc' = "update"
                        /\ UNCHANGED <<result, client_open>>
                        /\ IF next_page /= 0 /\ last_page /= 0
                           THEN /\ config' = [config EXCEPT !.start_page = next_page]
                                /\ UNCHANGED resume
                           ELSE /\ resume' = FALSE
                                /\ UNCHANGED config
    /\ UNCHANGED <<durable, update, mode, loopvars, genvars, procvars,
                   db_open, meta_open, history, session>>

\* if update: ... up to the call of client.fetch_modified_since, whose
\* fetch_all generator starts at page 1 with no page ceiling
HandleUpdate ==
    /\ pc = "update"
    /\ IF ~update
       THEN /\ pc' = "count"
            /\ UNCHANGED <<result, client_open, update, mode, genvars, log>>
       ELSE LET latest_modified == get_latest_modified_date(meta, config.wordpress_url)
                stored_search == get_search_query(meta, config.wordpress_url)
            IN  /\ log' = Append(log, CallEvent("read_metadata", 0))
                /\ IF SearchMismatch(stored_search, config.search)
                   THEN /\ Return("False")
                        /\ UNCHANGED <<update, mode, genvars>>
                   ELSE IF latest_modified = 0
                   THEN /\ update' = FALSE
                        /\ pc' = "count"
                        /\ UNCHANGED <<result, client_open, mode, genvars>>
                   ELSE /\ mode' = "update"
                        /\ page' = 1
                        /\ pages_fetched' = 0
                        /\ max_pages' = NoCeiling
                        /\ additional_params' =
                               ModifiedSinceParams(latest_modified, config.search)
                        /\ pc' = "fetch"
                        /\ UNCHANGED <<result, client_open, update>>
    /\ UNCHANGED <<durable, config, resume, loopvars, procvars,
                   db_open, meta_open, history, session>>

\* mutant: the full scrape starts at the stored next page
GetTotalPostsCount_FromStoredPage ==
    /\ pc = "count"
    /\ \E total_posts \in ReportedTotals : log' = Append(log, TotalEvent(total_posts))
    /\ mode' = "full"
    /\ additional_params' = FullParams(config.search)
    /\ current_page' = config.start_page
    /\ page' = IF HasMetadata(meta, config.wordpress_url)
               THEN get_next_page_to_fetch(meta, config.wordpress_url)
               ELSE config.start_page
    /\ pages_fetched' = 0
    /\ max_pages' = config.max_pages
    /\ pc' = "fetch"
    /\ UNCHANGED <<durable, result, config, flags, all_posts_raw, page_posts,
                   last_page_completed, procvars, handles, history, session>>

\* if not update: client.get_total_posts_count() (its result is only logged),
\* then the start of the fetch_all generator of the full scrape
GetTotalPostsCount ==
    /\ pc = "count"
    /\ \E total_posts \in ReportedTotals : log' = Append(log, TotalEvent(total_posts))
    /\ mode' = "full"
    /\ additional_params' = FullParams(config.search)
    /\ current_page' = config.start_page
    /\ page' = config.start_page
    /\ pages_fetched' = 0
    /\ max_pages' = config.max_pages
    /\ pc' = "fetch"
    /\ UNCHANGED <<durable, result, config, flags, all_posts_raw, page_posts,
                   last_page_completed, procvars, handles, history, session>>

\* mutant: the update branch lacks `if not all_posts_raw: return True`
LoopExit_NoEarlyReturn ==
    pc' = "process" /\ UNCHANGED <<result, client_open>>

\* the fetch loop is over: fetch_modified_since returns its list and the
\* update branch returns True when it is empty
LoopExit ==
    IF mode = "update" /\ all_posts_raw = <<>>
    THEN Return("True")
    ELSE pc' = "process" /\ UNCHANGED <<result, client_open>>

\* mutant: the loop also stops when it has collected as many records as
\* the site reported
ReachMaxPages_OrReportedTotal ==
    /\ pc = "fetch"
    /\ \/ TruthyInt(max_pages) /\ pages_fetched >= max_pages
       \/ /\ mode = "full"
          /\ \E n \in 1..Len(log) :
                /\ log[n].ev = "GET" /\ log[n].kind = "count"
                /\ Len(all_posts_raw) >= log[n].total
    /\ LoopExit
    /\ UNCHANGED <<durable, config, flags, mode, loopvars, genvars, procvars,
                   db_open, meta_open, log, history, session>>

\* fetch_all: the max_pages check at the top of the loop
ReachMaxPages ==
    /\ pc = "fetch"
    /\ TruthyInt(max_pages) /\ pages_fetched >= max_pages
    /\ LoopExit
    /\ UNCHANGED <<durable, config, flags, mode, loopvars, genvars, procvars,
                   db_open, meta_open, log, history, session>>

\* history: the run is a full scrape from page 1 that has checkpointed
AbortsFullScrape ==
    /\ mode = "full"
    /\ ~config.resume /\ ~config.update
    /\ config.start_page = 1
    /\ last_page_completed >= 1

\* mutant: a fetch error ends the loop like an empty page
FetchPage_SwallowsError ==
    /\ pc = "fetch"
    /\ ~(TruthyInt(max_pages) /\ pages_fetched >= max_pages)
    /\ \E resp \in Responses(page, ClientPerPage(config.per_page), additional_params) :
          LET r == FetchPageResult(resp)
          IN  /\ log' = Append(log, GetEvent("page", page,
                                   ClientPerPage(config.per_page),
                                   additional_params, resp.status, Outcome(r)))
              /\ IF r.kind = "error" \/ r.posts = <<>>
                 THEN LoopExit /\ UNCHANGED <<page_posts, session>>
                 ELSE /\ page_posts' = r.posts
                      /\ pc' = "yielded"
                      /\ UNCHANGED <<result, client_open, session>>
    /\ UNCHANGED <<durable, config, flags, mode, all_posts_raw, current_page,
                   last_page_completed, genvars, procvars, db_open, meta_open,
                   history>>

\* fetch_all: fetch_page(page), then break, yield or raise
FetchPage ==
    /\ pc = "fetch"
    /\ ~(TruthyInt(max_pages) /\ pages_fetched >= max_pages)
    /\ \E resp \in Responses(page, ClientPerPage(config.per_page), additional_params) :
          LET r == FetchPageResult(resp)
          IN  /\ log' = Append(log, GetEvent("page", page,
                                   ClientPerPage(config.per_page),
                                   additional_params, resp.status, Outcome(r)))
              /\ IF r.kind = "error"
                 THEN /\ Return("False")
                      /\ session' = IF AbortsFullScrape
                                    THEN [session EXCEPT !.aborted = TRUE]
                                    ELSE session
                      /\ UNCHANGED page_posts
                 ELSE IF r.posts = <<>>
                 THEN LoopExit /\ UNCHANGED <<page_posts, session>>
                 ELSE /\ page_posts' = r.posts
                      /\ pc' = "yielded"
                      /\ UNCHANGED <<result, client_open, session>>
    /\ UNCHANGED <<durable, config, flags, mode, all_posts_raw, current_page,
                   last_page_completed, genvars, procvars, db_open, meta_open,
                   history>>

\* mutant: the loop body lacks `current_page += 1`
CheckpointPage_CounterStuck ==
    /\ pc = "yielded" /\ mode = "full"
    /\ all_posts_raw' = all_posts_raw \o page_posts
    /\ meta' = update_progress(meta, config.wordpress_url, current_page,
                               Len(all_posts_raw'))
    /\ last_page_completed' = current_page
    /\ current_page' = current_page
    /\ pages_fetched' = pages_fetched + 1
    /\ page' = page + 1
    /\ log' = log \o <<CallEvent("update_progress", current_page),
                       CallEvent("sleep", page)>>
    /\ session' = [search |-> config.search, aborted |-> FALSE]
    /\ pc' = "fetch"
    /\ UNCHANGED <<posts, result, config, flags, mode, page_posts, max_pages,
                   additional_params, procvars, handles, history>>

\* the body of run_scraper's for loop over fetch_all, then the generator
\* resumes: pages_fetched += 1; page += 1; time.sleep(delay)
CheckpointPage ==
    /\ pc = "yielded" /\ mode = "full"
    /\ all_posts_raw' = all_posts_raw \o page_posts
    /\ meta' = update_progress(meta, config.wordpress_url, current_page,
                               Len(all_posts_raw'))
    /\ last_page_completed' = current_page
    /\ current_page' = current_page + 1
    /\ pages_fetched' = pages_fetched + 1
    /\ page' = page + 1
    /\ log' = log \o <<CallEvent("update_progress", current_page),
                       CallEvent("sleep", page)>>
    /\ session' = [search |-> config.search, aborted |-> FALSE]
    /\ pc' = "fetch"
    /\ UNCHANGED <<posts, result, config, flags, mode, page_posts, max_pages,
                   additional_params, procvars, handles, history>>

\* mutant: the update loop checkpoints its pages as the full loop does
CollectPage_Checkpoints ==
    /\ pc = "yielded" /\ mode = "update"
    /\ all_posts_raw' = all_posts_raw \o page_posts
    /\ meta' = update_progress(meta, config.wordpress_url, page,
                               Len(all_posts_raw'))
    /\ pages_fetched' = pages_fetched + 1
    /\ page' = page + 1
    /\ log' = log \o <<CallEvent("update_progress", page),
                       CallEvent("sleep", page)>>
    /\ pc' = "fetch"
    /\ UNCHANGED <<posts, result, config, flags, mode, page_posts,
                   current_page, last_page_completed, max_pages,
                   additional_params, procvars, handles, history, session>>

\* mutant: the update loop upserts each page as it arrives
CollectPage_StoresPage ==
    /\ pc = "yielded" /\ mode = "update"
    /\ all_posts_raw' = all_posts_raw \o page_posts
    /\ posts' = insert_posts_batch(posts, ProcessAll(page_posts))
    /\ pages_fetched' = pages_fetched + 1
    /\ page' = page + 1
    /\ log' = Append(log, CallEvent("sleep", page))
    /\ pc' = "fetch"
    /\ UNCHANGED <<meta, result, config, flags, mode, page_posts,
                   current_page, last_page_completed, max_pages,
                   additional_params, procvars, handles, history, session>>

\* the body of fetch_modified_since's for loop, then the generator resumes
CollectPage ==
    /\ pc = "yielded" /\ mode = "update"
    /\ all_posts_raw' = all_posts_raw \o page_posts
    /\ pages_fetched' = pages_fetched + 1
    /\ page' = page + 1
    /\ log' = Append(log, CallEvent("sleep", page))
    /\ pc' = "fetch"
    /\ UNCHANGED <<durable, result, config, flags, mode, page_posts,
                   current_page, last_page_completed, max_pages,
                   additional_params, procvars, handles, history, session>>

\* the `for post in all_posts_raw` loop
ProcessPosts ==
    /\ pc = "process"
    /\ processed_posts' = ProcessAll(all_posts_raw)
    /\ latest_modified_gmt' = LatestModifiedGmt(processed_posts')
    /\ pc' = "insert"
    /\ UNCHANGED <<durable, result, config, flags, mode, loopvars, genvars,
                   handles, log, history, session>>

\* a call that raised, as the log names it (pg: the row that failed)
FailedCallEvent(name, pg) == [CallEvent(name, pg) EXCEPT !.outcome = "error"]

\* mutant: a batch that raised is logged and the run goes on to finalize
InsertPosts_ErrorSwallowed ==
    /\ pc = "insert"
    /\ \E k \in 0..Len(processed_posts) :
          IF processed_posts = <<>>
          THEN /\ pc' = "save"
               /\ UNCHANGED <<posts, log, result, client_open>>
          ELSE IF k = 0
          THEN /\ posts' = insert_posts_batch(posts, processed_posts)
               /\ log' = Append(log, CallEvent("insert_posts_batch", 0))
               /\ pc' = "save"
               /\ UNCHANGED <<result, client_open>>
          ELSE /\ posts' = insert_posts_batch_raises(posts, processed_posts, k)
               /\ log' = Append(log, FailedCallEvent("insert_posts_batch", k))
               /\ pc' = "save"
               /\ UNCHANGED <<result, client_open>>
    /\ UNCHANGED <<meta, config, flags, mode, loopvars, genvars,
                   procvars, db_open, meta_open, history, session>>

\* if processed_posts: db_manager.insert_posts_batch(processed_posts); when
\* writing row k of the batch raises (k = 0: no row does), get_cursor rolls
\* back and re-raises, and `except Exception` returns False
InsertPosts ==
    /\ pc = "insert"
    /\ \E k \in 0..Len(processed_posts) :
          IF processed_posts = <<>>
          THEN /\ pc' = "save"
               /\ UNCHANGED <<posts, log, result, client_open>>
          ELSE IF k = 0
          THEN /\ posts' = insert_posts_batch(posts, processed_posts)
               /\ log' = Append(log, CallEvent("insert_posts_batch", 0))
               /\ pc' = "save"
               /\ UNCHANGED <<result, client_open>>
          ELSE /\ posts' = insert_posts_batch_raises(posts, processed_posts, k)
               /\ log' = Append(log, FailedCallEvent("insert_posts_batch", k))
               /\ Return("False")
    /\ UNCHANGED <<meta, config, flags, mode, loopvars, genvars,
                   procvars, db_open, meta_open, history, session>>

\* metadata_mgr.save_scrape_metadata(..., status='complete')
SaveMetadata ==
    /\ pc = "save"
    /\ meta' = save_scrape_metadata(meta, config.wordpress_url,
                   latest_modified_gmt, Len(processed_posts),
                   last_page_completed, 0, config.search, "complete")
    /\ log' = Append(log, CallEvent("save_scrape_metadata", last_page_completed))
    /\ session' = [search |-> config.search, aborted |-> FALSE]
    /\ pc' = "close"
    /\ UNCHANGED <<posts, result, config, flags, mode, loopvars, genvars,
                   procvars, handles, history>>

\* db_manager.close(); the exports; return True
Finish ==
    /\ pc = "close"
    /\ db_open' = FALSE
    /\ Return("True")
    /\ UNCHANGED <<durable, config, flags, mode, loopvars, genvars, procvars,
                   meta_open, log, history, session>>

\* the process is stopped at any point of a run: KeyboardInterrupt unwinds
\* run_scraper (its locals are gone, the `with` block closes the client) and
\* reaches main's handler, or the process is killed.  The tables stay as
\* committed.
Interrupt ==
    /\ pc \notin {"idle", "done"}
    /\ Return("interrupted")
    /\ config' = NoConfig
    /\ update' = FALSE
    /\ resume' = FALSE
    /\ all_posts_raw' = <<>>
    /\ page_posts' = <<>>
    /\ current_page' = 0
    /\ last_page_completed' = 0
    /\ page' = 0
    /\ pages_fetched' = 0
    /\ max_pages' = NoCeiling
    /\ additional_params' = NoParams
    /\ processed_posts' = <<>>
    /\ latest_modified_gmt' = 0
    /\ log' = <<>>
    /\ UNCHANGED <<durable, mode, db_open, meta_open, history, session>>

\* main: sys.exit(...); the memory of the process is gone, the two database
\* files stay
Exit ==
    /\ pc = "done"
    /\ pc' = "idle"
    /\ result' = "none"
    /\ config' = NoConfig
    /\ update' = FALSE
    /\ resume' = FALSE
    /\ mode' = "none"
    /\ all_posts_raw' = <<>>
    /\ page_posts' = <<>>
    /\ current_page' = 0
    /\ last_page_completed' = 0
    /\ page' = 0
    /\ pages_fetched' = 0
    /\ max_pages' = NoCeiling
    /\ additional_params' = NoParams
    /\ processed_posts' = <<>>
    /\ latest_modified_gmt' = 0
    /\ client_open' = FALSE
    /\ db_open' = FALSE
    /\ meta_open' = FALSE
    /\ log' = <<>>
    /\ meta0' = meta
    /\ posts0' = posts
    /\ session0' = session
    /\ UNCHANGED <<durable, session>>

Next ==
    \/ StartRun
    \/ ValidateEndpoint
    \/ OpenStores
    \/ HandleResume
    \/ HandleUpdate
    \/ GetTotalPostsCount
    \/ ReachMaxPages
    \/ FetchPage
    \/ CheckpointPage
    \/ CollectPage
    \/ ProcessPosts
    \/ InsertPosts
    \/ SaveMetadata
    \/ Finish
    \/ Interrupt
    \/ Exit

Spec == Init /\ [][Next]_vars

----------------------------------------------------------------------------
(* Direct use of DatabaseManager: any sequence of insert_post and          *)
(* insert_posts_batch calls, with any field values.  log holds the last    *)
(* call and posts0 the table before it.                                    *)

DbRows == [id : 1..MaxPostId, modified_gmt : 1..2, title : {"a", "b"}]

DbBatches == UNION { [1..n -> DbRows] : n \in 0..MaxBatch }

DbCall(name, data) == [ev |-> name, data |-> data]

CallInsertPost ==
    /\ pc = "idle"
    /\ \E post_data \in DbRows :
          /\ posts' = insert_post(posts, post_data)
          /\ log' = <<DbCall("insert_post", <<post_data>>)>>
    /\ posts0' = posts
    /\ UNCHANGED <<meta, pc, result, config, flags, mode, loopvars, genvars,
                   procvars, handles, meta0, session, session0>>

CallInsertPostsBatch ==
    /\ pc = "idle"
    /\ \E posts_data \in DbBatches :
          /\ posts' = insert_posts_batch(posts, posts_data)
          /\ log' = <<DbCall("insert_posts_batch", posts_data)>>
    /\ posts0' = posts
    /\ UNCHANGED <<meta, pc, result, config, flags, mode, loopvars, genvars,
                   procvars, handles, meta0, session, session0>>

NextDb ==
    \/ CallInsertPost
    \/ CallInsertPostsBatch

SpecDb == Init /\ [][NextDb]_vars

----------------------------------------------------------------------------
(* Direct use of MetadataManager: any sequence of update_progress and      *)
(* save_scrape_metadata calls for two sources.  log holds the call and     *)
(* meta0 the table before it, until the caller goes on.                    *)

MetaUrls == Urls \cup {"https://other.example/"}

MetaCall(name, url, pg) == [ev |-> name, url |-> url, page |-> pg]

CallUpdateProgress ==
    /\ pc = "idle"
    /\ \E url \in MetaUrls, pg \in 1..MaxMetaPage, posts_count \in 0..1 :
          /\ meta' = update_progress(meta, url, pg, posts_count)
          /\ log' = <<MetaCall("update_progress", url, pg)>>
    /\ meta0' = meta
    /\ pc' = "called"
    /\ UNCHANGED <<posts, result, config, flags, mode, loopvars, genvars,
                   procvars, handles, posts0, session, session0>>

\* the finalize call as run_scraper makes it: next_page is left to default
CallSaveScrapeMetadata ==
    /\ pc = "idle"
    /\ \E url \in MetaUrls, latest_post_modified \in 0..1, total_posts \in 0..1,
          last_page \in 0..MaxMetaPage :
          /\ meta' = save_scrape_metadata(meta, url, latest_post_modified,
                                          total_posts, last_page, 0, None,
                                          "complete")
          /\ log' = <<MetaCall("save_scrape_metadata", url, last_page)>>
    /\ meta0' = meta
    /\ pc' = "called"
    /\ UNCHANGED <<posts, result, config, flags, mode, loopvars, genvars,
                   procvars, handles, posts0, session, session0>>

ReturnFromMetadataCall ==
    /\ pc = "called"
    /\ pc' = "idle"
    /\ log' = <<>>
    /\ UNCHANGED <<durable, result, config, flags, mode, loopvars, genvars,
                   procvars, handles, history, session>>

NextMeta ==
    \/ CallUpdateProgress
    \/ CallSaveScrapeMetadata
    \/ ReturnFromMetadataCall

SpecMeta == Init /\ [][NextMeta]_vars

----------------------------------------------------------------------------
(* Direct use of WordPressClient: one fetch_page call of a client built    *)
(* with any page size, for any page and filter, against a server that      *)
(* answers the attempts of the request with any statuses.  log holds the   *)
(* call until the caller has looked at what came back.                     *)

PerPages == {PageSize, 100, 101}

\* what the server does on one attempt: no response, the page (200), page
\* out of range (400), or one of two statuses of status_forcelist
AnswerStatuses == {0, 200, 400, 429, 503}

CallFetchPage ==
    /\ pc = "idle"
    /\ \E per_page \in PerPages, pg \in 1..MaxPage, search \in {None, "", "drone"},
          modified_after \in 0..1, answers \in [1..MaxAnswers -> AnswerStatuses] :
          LET additional == IF modified_after = 0
                            THEN FullParams(search)
                            ELSE ModifiedSinceParams(modified_after, search)
              sent == session_get(answers)
              resp == IF sent.status = 200
                      THEN RemoteResponse(pg, ClientPerPage(per_page), additional)
                      ELSE [status |-> sent.status, json |-> TRUE, body |-> <<>>]
              r == FetchPageResult(resp)
          IN  log' = <<[ev |-> "fetch_page", per_page |-> per_page, page |-> pg,
                        search |-> search, modified_after |-> modified_after,
                        answers |-> answers, attempts |-> sent.attempts,
                        request |-> GetEvent("page", pg, ClientPerPage(per_page),
                                             additional, resp.status, Outcome(r))]>>
    /\ pc' = "called"
    /\ UNCHANGED <<durable, result, config, flags, mode, loopvars, genvars,
                   procvars, handles, history, session>>

\* the caller is done with the list, or the WordPressAPIError, of the call
ReturnFromFetchPage ==
    /\ pc = "called"
    /\ pc' = "idle"
    /\ log' = <<>>
    /\ UNCHANGED <<durable, result, config, flags, mode, loopvars, genvars,
                   procvars, handles, history, session>>

NextClient ==
    \/ CallFetchPage
    \/ ReturnFromFetchPage

SpecClient == Init /\ [][NextClient]_vars

----------------------------------------------------------------------------
(* Vocabulary of the properties *)

TheUrl == config.wordpress_url

Row == get_latest_metadata(meta, TheUrl)

Row0 == get_latest_metadata(meta0, TheUrl)

LastEvent == log[Len(log)]

IsPageGet(e) == e.ev = "GET" /\ e.kind = "page"

\* the page requests of the current run, in order
PageGets == SelectSeq(log, IsPageGet)

\* the search parameter a phrase is sent as (None: no parameter)
Effective(search) == IF Truthy(search) THEN search ELSE None

Ids(seq) == { seq[n].id : n \in 1..Len(seq) }

\* the ids of the records of page pg of the listing the current run walks
PageIds(pg) ==
    Ids(RemoteResponse(pg, ClientPerPage(config.per_page), additional_params).body)

OneRowPerId(tbl) == \A r1, r2 \in tbl : r1.id = r2.id => r1 = r2

\* the run has finished the resume branch with the check's `return False`
RejectedByCheck ==
    /\ pc = "done" /\ result = "False"
    /\ log /= <<>> /\ LastEvent.ev = "read_metadata"

\* the filters differ: stored F vs none, none vs requested F, or F vs G
FilterDiffers(stored, requested) ==
    \/ Truthy(stored) /\ ~Truthy(requested)
    \/ ~Truthy(stored) /\ Truthy(requested)
    \/ Truthy(stored) /\ Truthy(requested) /\ stored /= requested

----------------------------------------------------------------------------
(* Properties *)

\* C1: in every state of a full-scrape or resume run, the records of every
\* page this run has checkpointed (start page .. last_page_scraped of the
\* progress row) are in the posts table.
C1_CheckpointedPagesAreStored ==
    (mode = "full" /\ last_page_completed >= 1 /\ HasMetadata(meta, TheUrl))
    => \A pg \in config.start_page..Row.last_page_scraped :
          PageIds(pg) \subseteq get_all_post_ids(posts)

\* C2: when a resume run with the same filter, after a full scrape from
\* page 1 that a fetch error aborted, has run to end of data and returned
\* True, the posts table holds every record of the remote listing, one row
\* per id.
C2_AbortThenResumeStoresAllPages ==
    (/\ pc = "done" /\ result = "True"
     /\ config.resume /\ ~config.update /\ config.max_pages = NoCeiling
     /\ session0.aborted /\ session0.search = config.search)
    => /\ Ids(RemoteListing(FullParams(config.search))) \subseteq get_all_post_ids(posts)
       /\ OneRowPerId(posts)

\* C3: after any sequence of insert_post / insert_posts_batch calls the
\* table holds at most one row per id; after a call each id of the call
\* carries exactly the values last given for it, the other rows are as they
\* were, and the count grew only by the ids that were not stored before (it
\* is unchanged when every id was already stored).
C3_IdempotentUpsert ==
    /\ OneRowPerId(posts)
    /\ log /= <<>> =>
          LET data == log[1].data
          IN  /\ \A n \in 1..Len(data) :
                    (\A k \in (n + 1)..Len(data) : data[k].id /= data[n].id)
                    => data[n] \in posts
              /\ \A r \in posts0 : r.id \notin Ids(data) => r \in posts
              /\ get_post_count(posts) =
                    get_post_count(posts0)
                    + Cardinality(Ids(data) \ get_all_post_ids(posts0))

\* C3 witness: a call upserted an id that was stored with other values
C3_Witness ==
    /\ log /= <<>>
    /\ \E r \in posts0 : \E n \in 1..Len(log[1].data) :
          /\ log[1].data[n].id = r.id
          /\ log[1].data[n] /= r
          /\ log[1].data[n] \in posts
          /\ r \notin posts
    /\ get_post_count(posts) = get_post_count(posts0)

\* C4: right after update_progress(source, page = N, count) the latest row
\* of the source has last_page_scraped = N, next_page_to_fetch = N + 1 and
\* scrape_status = 'in_progress'.
C4_CheckpointWritesRow ==
    (/\ pc = "fetch" /\ Len(log) >= 2
     /\ log[Len(log) - 1].ev = "update_progress")
    => /\ HasMetadata(meta, TheUrl)
       /\ Row.last_page_scraped = log[Len(log) - 1].page
       /\ Row.next_page_to_fetch = log[Len(log) - 1].page + 1
       /\ Row.scrape_status = "in_progress"

\* C4 witness: a checkpoint of page 2 has updated the row that an earlier
\* run had finalized as complete
C4_Witness ==
    /\ pc = "fetch" /\ Len(log) >= 2
    /\ log[Len(log) - 1].ev = "update_progress"
    /\ log[Len(log) - 1].page = 2
    /\ HasMetadata(meta0, TheUrl)
    /\ Row0.scrape_status = "complete"
    /\ Row0.next_page_to_fetch /= 3

\* C5: a resume run (without update) requested with filter F against a
\* stored session checkpointed through page N >= 1 under filter F is not
\* rejected by the search check, and its first page request is for page
\* N + 1 and carries search = F.
C5_ResumeAcceptedAtNextPage ==
    (/\ config.resume /\ ~config.update
     /\ HasMetadata(meta0, TheUrl)
     /\ Row0.last_page_scraped >= 1
     /\ session0.search = config.search)
    => /\ ~RejectedByCheck
       /\ PageGets /= <<>> =>
             /\ PageGets[1].page = Row0.last_page_scraped + 1
             /\ PageGets[1].search = Effective(config.search)

\* C6: a resume or update run whose requested filter differs from the one
\* stored in the latest row of the source sends no page request, changes no
\* row of either table, never gets past the check, and returns False.
C6_FilterMismatchRejected ==
    (/\ config.resume \/ config.update
     /\ HasMetadata(meta0, TheUrl)
     /\ FilterDiffers(Row0.search_query, config.search))
    => /\ PageGets = <<>>
       /\ meta = meta0
       /\ posts = posts0
       /\ pc \in {"validate", "open", "resume", "update", "done"}
       /\ pc = "done" => result = "False"

\* C6 witness: an update run asking for one phrase against a row stored
\* with another phrase has been rejected by the check
C6_Witness ==
    /\ config.update /\ ~config.resume
    /\ HasMetadata(meta0, TheUrl)
    /\ Truthy(Row0.search_query) /\ Truthy(config.search)
    /\ Row0.search_query /= config.search
    /\ RejectedByCheck

\* C7: when a full-scrape or resume run ends with a fatal fetch error on
\* page k + 1 and pages 1..k, k >= 1, are committed (the row says
\* last_page_scraped = k and their records are stored), the row's status is
\* in_progress or interrupted and the run has written no 'complete'.
C7_FatalAbortLeavesResumable ==
    (/\ pc = "done" /\ result = "False" /\ mode = "full"
     /\ log /= <<>> /\ IsPageGet(LastEvent) /\ LastEvent.outcome = "error"
     /\ HasMetadata(meta, TheUrl)
     /\ Row.last_page_scraped >= 1
     /\ LastEvent.page = Row.last_page_scraped + 1
     /\ \A pg \in 1..Row.last_page_scraped :
           PageIds(pg) \subseteq get_all_post_ids(posts))
    => /\ Row.scrape_status \in {"in_progress", "interrupted"}
       /\ \A n \in 1..Len(log) : log[n].ev /= "save_scrape_metadata"

\* C8: when a run has met end of data on page N + 1 and has returned True,
\* the pages up to N having been checkpointed by this run, or by an earlier
\* run under the same filter that this run resumes, the row is 'complete'
\* with last_page_scraped = N.
C8_EndOfDataFinalizesAtLastPage ==
    (/\ pc = "done" /\ result = "True" /\ mode = "full"
     /\ PageGets /= <<>>
     /\ PageGets[Len(PageGets)].outcome = "empty"
     /\ \/ last_page_completed = PageGets[Len(PageGets)].page - 1
        \/ /\ config.resume /\ ~config.update
           /\ session0.search = config.search
           /\ get_last_page_scraped(meta0, TheUrl) >= 1
           /\ get_last_page_scraped(meta0, TheUrl) = PageGets[Len(PageGets)].page - 1)
    => /\ HasMetadata(meta, TheUrl)
       /\ Row.scrape_status = "complete"
       /\ Row.last_page_scraped = PageGets[Len(PageGets)].page - 1

\* C9: in an update run against a row whose latest_post_modified is T, the
\* page requests are for pages 1, 2, 3, ... and every one carries
\* modified_after = T and the search phrase, which is the stored one.
C9_UpdateRequestsCarryCutover ==
    (mode = "update" /\ result /= "interrupted")
    => /\ get_latest_modified_date(meta0, TheUrl) /= 0
       /\ Effective(get_search_query(meta0, TheUrl)) = Effective(config.search)
       /\ \A n \in 1..Len(PageGets) :
             /\ PageGets[n].page = n
             /\ PageGets[n].modified_after = get_latest_modified_date(meta0, TheUrl)
             /\ PageGets[n].search = Effective(config.search)

\* C9 witness: an update run has sent its second page request
C9_Witness ==
    /\ mode = "update"
    /\ Len(PageGets) >= 2
    /\ PageGets[1].outcome = "posts"
    /\ PageGets[2].modified_after >= 1

\* C10: an update run whose first page request comes back with no records
\* has returned True and both tables are as they were when it started.
C10_EmptyUpdateIsNoOp ==
    (/\ mode = "update" /\ log /= <<>>
     /\ IsPageGet(LastEvent) /\ LastEvent.page = 1
     /\ LastEvent.outcome = "empty")
    => /\ pc = "done" /\ result = "True"
       /\ meta = meta0
       /\ posts = posts0

\* C10 witness: such a run against a completed session that has records
C10_Witness ==
    /\ mode = "update" /\ log /= <<>>
    /\ IsPageGet(LastEvent) /\ LastEvent.page = 1
    /\ LastEvent.outcome = "empty"
    /\ pc = "done" /\ result = "True"
    /\ HasMetadata(meta0, TheUrl)
    /\ Row0.scrape_status = "complete"
    /\ Row0.total_posts_scraped >= 1
    /\ posts /= {}

\* C11: in a run requested with both resume and update against a stored
\* session (last_page_scraped >= 1), the update branch is not executed: no
\* modified-after fetch is made and the first page request is for the
\* stored next page.
C11_ResumeTakesPrecedence ==
    (/\ config.resume /\ config.update
     /\ HasMetadata(meta0, TheUrl)
     /\ Row0.last_page_scraped >= 1)
    => /\ mode /= "update"
       /\ \A n \in 1..Len(PageGets) : PageGets[n].modified_after = 0
       /\ PageGets /= <<>> => PageGets[1].page = Row0.next_page_to_fetch

\* C12: when the operator interrupts a full-scrape or resume run in its
\* paging loop after it has checkpointed a page, the process exits with the
\* row's status 'interrupted' and last_page_scraped as the last checkpoint
\* left it.
C12_InterruptFinalizesInterrupted ==
    [][(/\ pc \in {"fetch", "yielded"} /\ mode = "full"
        /\ last_page_completed >= 1
        /\ result' = "interrupted")
       => /\ get_latest_metadata(meta', TheUrl).scrape_status = "interrupted"
          /\ get_latest_metadata(meta', TheUrl).last_page_scraped
                = Row.last_page_scraped]_vars

\* C13: when the search check rejects a run, the run has sent no request to
\* the remote endpoint and has made no call on either store before the
\* lookup of the stored session.
C13_RejectionPrecedesAllActivity ==
    (/\ RejectedByCheck
     /\ HasMetadata(meta0, TheUrl)
     /\ FilterDiffers(Row0.search_query, config.search))
    => \A n \in 1..Len(log) :
          /\ log[n].ev /= "GET"
          /\ log[n].ev \notin {"create_table_metadata", "create_table_posts"}

\* C14: whenever a run has ended in failure on a fatal condition (a fetch
\* error in the full, resume or update loop, or an error of the batch
\* upsert) and the source has a progress row (of a session that committed
\* at least one record), the row's status is in_progress or interrupted.
C14_FailureNeverLeavesComplete ==
    (/\ pc = "done" /\ result = "False"
     /\ log /= <<>> /\ LastEvent.outcome = "error"
     /\ IsPageGet(LastEvent) \/ LastEvent.ev = "insert_posts_batch"
     /\ HasMetadata(meta, TheUrl)
     /\ Row.total_posts_scraped >= 1)
    => Row.scrape_status \in {"in_progress", "interrupted"}

\* C15: in a full-scrape or resume run every checkpoint of a page p comes
\* after the page request for p and after a batch upsert made since that
\* request (fetch, upsert, checkpoint, page by page).
C15_StoreThenCheckpointPerPage ==
    mode = "full"
    => \A n \in 1..Len(log) :
          log[n].ev = "update_progress"
          => \E j \in 1..(n - 1) : \E k \in (j + 1)..(n - 1) :
                /\ IsPageGet(log[j]) /\ log[j].page = log[n].page
                /\ log[k].ev = "insert_posts_batch" /\ log[k].outcome = "ok"

\* C16: when writing a record of the batch fails, insert_posts_batch leaves
\* the posts table exactly as it was before the call, the run has returned
\* False, and it has not finalized the session.
C16_FailedBatchIsRolledBack ==
    (/\ log /= <<>> /\ LastEvent.ev = "insert_posts_batch"
     /\ LastEvent.outcome = "error")
    => /\ pc = "done" /\ result = "False"
       /\ posts = posts0
       /\ \A n \in 1..Len(log) : log[n].ev /= "save_scrape_metadata"

\* C16 witness: the batch failed on its second or a later row, after rows
\* that would have changed the table had been executed
C16_Witness ==
    /\ log /= <<>> /\ LastEvent.ev = "insert_posts_batch"
    /\ LastEvent.outcome = "error"
    /\ LastEvent.page >= 2
    /\ executemany(posts0, processed_posts, LastEvent.page - 1) /= posts0
    /\ posts0 /= {}
    /\ posts = posts0

\* C17: a resume run (without update) for a source with no stored session
\* is not rejected, whatever its filter and start page, and its first page
\* request is for page 1.
C17_ResumeWithoutSessionStartsAtPageOne ==
    (/\ config.resume /\ ~config.update
     /\ ~HasMetadata(meta0, TheUrl))
    => /\ ~RejectedByCheck
       /\ PageGets /= <<>> => PageGets[1].page = 1

\* C18: a run makes the modified-after fetch only when the source's latest
\* row, as the run found it, has status 'complete'.
C18_UpdateOnlyAfterCompleteSession ==
    (mode = "update" /\ result /= "interrupted")
    => /\ HasMetadata(meta0, TheUrl)
       /\ Row0.scrape_status = "complete"

C20_LatestModifiedNeverDecreases ==
    (/\ pc = "done" /\ result = "True"
     /\ HasMetadata(meta0, TheUrl) /\ HasMetadata(meta, TheUrl))
    => Row.latest_post_modified >= Row0.latest_post_modified

\* C21: after every checkpoint of a resume run that continues a session
\* stored under the same filter, total_posts_scraped of the row counts the
\* records of the earlier session and of the pages this run has collected.
C21_TotalIsCumulativeAcrossRuns ==
    (/\ mode = "full" /\ pc \in {"fetch", "yielded"}
     /\ config.resume /\ ~config.update
     /\ HasMetadata(meta0, TheUrl)
     /\ Row0.last_page_scraped >= 1
     /\ session0.search = config.search
     /\ last_page_completed >= 1)
    => /\ Row.total_posts_scraped >= Row0.total_posts_scraped
       /\ Row.total_posts_scraped = Row0.total_posts_scraped + Len(all_posts_raw)

\* C22: in every state of a full-scrape or resume run that has checkpointed
\* a page, search_query of the row is the search phrase of the run.
C22_StoredFilterIsTheRunsFilter ==
    (/\ mode = "full" /\ result /= "interrupted"
     /\ last_page_completed >= 1
     /\ pc \in {"fetch", "yielded"})
    => Effective(Row.search_query) = Effective(config.search)

\* C23: a page request answered with a client-class status (400, 403, 404)
\* is never turned into an error: fetch_page returns the empty page.
C23_ClientStatusIsEndOfData ==
    \A n \in 1..Len(log) :
       (IsPageGet(log[n]) /\ log[n].status \in {400, 403, 404})
       => log[n].outcome = "empty"

\* C24: when a page request of a run has failed (non-retryable status, body
\* that is not JSON, no response), it is the last request of the run, the
\* run has returned False, and both tables are as the last checkpoint left
\* them: the row says last_page_scraped = the last page this run
\* checkpointed (or, when it checkpointed none, as in every update run, the
\* tables are as the run found them), and no record was stored or removed.
C24_FetchErrorAbortsAndKeepsCheckpoints ==
    \A n \in 1..Len(log) :
       (IsPageGet(log[n]) /\ log[n].outcome = "error")
       => /\ n = Len(log)
          /\ pc = "done" /\ result = "False"
          /\ posts = posts0
          /\ IF last_page_completed >= 1
             THEN /\ HasMetadata(meta, TheUrl)
                  /\ Row.last_page_scraped = last_page_completed
                  /\ Row.next_page_to_fetch = log[n].page
                  /\ Row.total_posts_scraped = Len(all_posts_raw)
                  /\ Row.scrape_status = "in_progress"
             ELSE meta = meta0

\* C24 witness: the request for page 2 came back with a body that is not
\* JSON after page 1 had been checkpointed
C24_Witness ==
    /\ mode = "full" /\ pc = "done" /\ result = "False"
    /\ log /= <<>> /\ IsPageGet(LastEvent)
    /\ LastEvent.outcome = "error" /\ LastEvent.status = 200
    /\ LastEvent.page = 2
    /\ last_page_completed = 1
    /\ Row.last_page_scraped = 1

\* C29: in a run requested with neither resume nor update the first page
\* request is for the configured start page.
C29_PlainRunStartsAtConfiguredPage ==
    (~config.resume /\ ~config.update /\ PageGets /= <<>>)
    => PageGets[1].page = config.start_page

\* C29 witness: such a run against a source whose row stores another next
\* page has sent its first page request
C29_Witness ==
    /\ ~config.resume /\ ~config.update /\ PageGets /= <<>>
    /\ HasMetadata(meta0, TheUrl)
    /\ Row0.next_page_to_fetch = 3
    /\ config.start_page = 2
    /\ PageGets[1].page = 2

\* C26: when the fetch loop of a run is over (end of data or the page
\* ceiling), every delay of the run was followed by a page request that
\* returned records; none came after the final page.
C26_NoDelayAfterFinalPage ==
    (/\ pc \in {"process", "insert", "save", "close"}
     /\ mode = "full")
    => \A n \in 1..Len(log) :
          log[n].ev = "sleep"
          => \E k \in (n + 1)..Len(log) :
                IsPageGet(log[k]) /\ log[k].outcome = "posts"

\* C27: a full-scrape or resume run configured with --max-pages M, M >= 0,
\* sends at most M page requests and writes at most M checkpoints.
C27_CeilingBoundsFetchesAndCheckpoints ==
    (/\ mode = "full" /\ result /= "interrupted"
     /\ config.max_pages /= NoCeiling)
    => /\ Len(PageGets) <= config.max_pages
       /\ pages_fetched <= config.max_pages
       /\ last_page_completed >= 1
          => last_page_completed - config.start_page + 1 <= config.max_pages

\* C25: a page request is attempted at most RetryTotal + 1 times; when the
\* server answers every one of these attempts with a retryable status, the
\* request is attempted exactly RetryTotal + 1 times and fetch_page raises
\* (it does not return the empty page).
C25_RetriesAreBoundedThenFatal ==
    log /= <<>>
    => /\ log[1].attempts <= RetryTotal + 1
       /\ (\A i \in 1..(RetryTotal + 1) : log[1].answers[i] \in status_forcelist)
          => /\ log[1].attempts = RetryTotal + 1
             /\ log[1].request.outcome = "error"

\* C25 witness: the server answered 503 to every attempt
C25_Witness ==
    /\ log /= <<>>
    /\ \A i \in 1..MaxAnswers : log[1].answers[i] = 503
    /\ log[1].attempts = 4
    /\ log[1].request.outcome = "error"

\* C28: every page request carries per_page = min(configured per_page,
\* 100), the page asked for, the search phrase when one is set and the
\* modified-after timestamp when one is set.
C28_RequestCarriesCappedPageSizeAndFilters ==
    log /= <<>>
    => /\ log[1].request.per_page = Min(log[1].per_page, 100)
       /\ log[1].request.per_page <= 100
       /\ log[1].request.page = log[1].page
       /\ Truthy(log[1].search) => log[1].request.search = log[1].search
       /\ ~Truthy(log[1].search) => log[1].request.search = None
       /\ log[1].request.modified_after = log[1].modified_after

\* C28 witness: a client configured with per_page = 101 has asked for a
\* page with a search phrase and a modified-after timestamp
C28_Witness ==
    /\ log /= <<>>
    /\ log[1].per_page = 101
    /\ log[1].request.per_page = 100
    /\ log[1].request.search = "drone"
    /\ log[1].request.modified_after = 1
    /\ log[1].request.outcome = "posts"

\* the count probe of the current run, and the posts-pages it has fetched
CountProbes == SelectSeq(log, LAMBDA e : e.ev = "GET" /\ e.kind = "count")

Checkpoints == SelectSeq(log, LAMBDA e : e.ev = "update_progress")

\* C30: whatever total the site reports, the full-scrape loop is driven by
\* the pages alone: it asks for consecutive pages from the start page, goes
\* on exactly while the last page returned records and the ceiling is not
\* reached, checkpoints each page that returned records, and ends only on
\* an empty page, the ceiling or an error.  Two runs that differ only in
\* the reported total therefore take the same steps.
C30_ReportedTotalsDoNotSteerTheLoop ==
    (mode = "full" /\ result /= "interrupted" /\ CountProbes /= <<>>)
    => /\ \A n \in 1..Len(PageGets) :
             /\ PageGets[n].page = config.start_page + n - 1
             /\ n < Len(PageGets) => PageGets[n].outcome = "posts"
       /\ pages_fetched = Len(Checkpoints)
       /\ \A n \in 1..Len(Checkpoints) :
             /\ Checkpoints[n].page = PageGets[n].page
             /\ PageGets[n].outcome = "posts"
       /\ pc = "fetch" => Len(PageGets) = Len(Checkpoints)
       /\ pc = "yielded" =>
             /\ Len(PageGets) = Len(Checkpoints) + 1
             /\ PageGets[Len(PageGets)].outcome = "posts"
       /\ pc \in {"process", "insert", "save", "close"} =>
             \/ /\ Len(PageGets) = Len(Checkpoints) + 1
                /\ PageGets[Len(PageGets)].outcome = "empty"
             \/ /\ Len(PageGets) = Len(Checkpoints)
                /\ TruthyInt(config.max_pages)
                /\ pages_fetched = config.max_pages

\* C30 witness: the site reported no total and the run fetched two pages
\* of records before end of data, then finalized
C30_Witness ==
    /\ mode = "full" /\ pc = "done" /\ result = "True"
    /\ CountProbes /= <<>> /\ CountProbes[1].total = 0
    /\ Len(PageGets) = 3
    /\ PageGets[3].outcome = "empty"
    /\ Len(Checkpoints) = 2

\* C31: when run_scraper has returned (True or False), the HTTP session,
\* the posts database connection and the metadata database connection are
\* closed.
C31_AllHandlesClosedOnReturn ==
    (pc = "done" /\ result \in {"True", "False"})
    => /\ ~client_open
       /\ ~db_open
       /\ ~meta_open

\* C32: a run that has ended without a configuration error, a fetch error,
\* a storage error or an interrupt has returned True, and the source's row
\* is finalized as 'complete'.
C32_ErrorFreeRunEndsComplete ==
    (/\ pc = "done" /\ result /= "interrupted"
     /\ mode \in {"full", "update"}
     /\ \A n \in 1..Len(log) : log[n].outcome /= "error")
    => /\ result = "True"
       /\ HasMetadata(meta, TheUrl)
       /\ Row.scrape_status = "complete"

RowsOf(m, url) == { i \in DOMAIN m : m[i].wordpress_url = url }

\* C33: the progress table holds at most one row per source URL; a call
\* for a source that has no row adds one, a call for a source that has a
\* row changes that row in place, and no call removes or touches the row of
\* another source.
C33_OneProgressRowPerSource ==
    /\ \A url \in MetaUrls : Cardinality(RowsOf(meta, url)) <= 1
    /\ pc = "called" =>
          /\ Len(meta) = IF HasMetadata(meta0, log[1].url)
                         THEN Len(meta0) ELSE Len(meta0) + 1
          /\ \A i \in DOMAIN meta0 :
                /\ meta[i].wordpress_url = meta0[i].wordpress_url
                /\ meta0[i].wordpress_url /= log[1].url => meta[i] = meta0[i]
          /\ HasMetadata(meta, log[1].url)

\* C33 witness: a checkpoint changed the row of one of two stored sources
C33_Witness ==
    /\ pc = "called" /\ log[1].ev = "update_progress"
    /\ Len(meta0) = 2 /\ Len(meta) = 2
    /\ HasMetadata(meta0, log[1].url)
    /\ get_latest_metadata(meta0, log[1].url).scrape_status = "complete"
    /\ get_latest_metadata(meta, log[1].url).scrape_status = "in_progress"

\* C38: right after a save_scrape_metadata call made without next_page,
\* the row of the source has last_page_scraped = the last_page passed and
\* next_page_to_fetch = last_page_scraped + 1 (1 when last_page is 0).
C38_FinalizeWritesNextPage ==
    (pc = "called" /\ log[1].ev = "save_scrape_metadata")
    => LET row == get_latest_metadata(meta, log[1].url)
       IN  /\ row.last_page_scraped = log[1].page
           /\ row.next_page_to_fetch = row.last_page_scraped + 1
           /\ log[1].page = 0 => row.next_page_to_fetch = 1

\* C38 witness: a finalize with last_page = 2 over a row checkpointed at
\* page 1
C38_Witness ==
    /\ pc = "called" /\ log[1].ev = "save_scrape_metadata"
    /\ log[1].page = 2
    /\ HasMetadata(meta0, log[1].url)
    /\ get_latest_metadata(meta0, log[1].url).next_page_to_fetch = 2
    /\ get_latest_metadata(meta, log[1].url).next_page_to_fetch = 3

\* C34: in a full scrape or a resume, the n-th checkpoint of the run writes
\* the page number of the n-th page request, which is start + n - 1, and
\* the orchestrator's page counter equals the generator's page counter.
C34_CheckpointPageIsFetchedPage ==
    (mode = "full" /\ pc \in {"fetch", "yielded", "process", "insert",
                              "save", "close"})
    => /\ current_page = page
       /\ Len(PageGets) \in {Len(Checkpoints), Len(Checkpoints) + 1}
       /\ \A n \in 1..Len(Checkpoints) :
             /\ Checkpoints[n].page = PageGets[n].page
             /\ Checkpoints[n].page = config.start_page + n - 1
       /\ \A n \in 1..Len(PageGets) :
             PageGets[n].page = config.start_page + n - 1

\* C34 witness: a resume from stored page 2 has checkpointed page 2 and
\* requested page 3
C34_Witness ==
    /\ mode = "full" /\ pc = "process" /\ config.resume
    /\ config.start_page = 2
    /\ HasMetadata(meta0, TheUrl)
    /\ Row0.next_page_to_fetch = 2
    /\ Len(Checkpoints) = 1 /\ Checkpoints[1].page = 2
    /\ Len(PageGets) = 2 /\ PageGets[2].page = 3
    /\ Row.last_page_scraped = 2

Finalizes == SelectSeq(log, LAMBDA e : e.ev = "save_scrape_metadata")

Upserts == SelectSeq(log, LAMBDA e : e.ev = "insert_posts_batch")

\* C35: a run that has records finalizes its row only after its batch
\* upsert committed (the table then holds every record of the run); when
\* the upsert raised, the run has returned False without finalizing, and
\* the row is as the last checkpoint wrote it (or as it was before the
\* run, when the run made no checkpoint).
C35_FinalizeOnlyAfterUpsertCommitted ==
    /\ (pc \in {"save", "close", "done"} /\ result /= "interrupted"
           /\ Len(Finalizes) + (IF pc = "save" THEN 1 ELSE 0) >= 1
           /\ processed_posts /= <<>>)
       => /\ Len(Upserts) = 1 /\ Upserts[1].outcome = "ok"
          /\ \A n \in 1..Len(processed_posts) :
                processed_posts[n].id \in get_all_post_ids(posts)
    /\ (Len(Upserts) >= 1 /\ Upserts[1].outcome = "error")
       => /\ pc = "done" /\ result = "False"
          /\ Finalizes = <<>>
          /\ posts = posts0
          /\ IF Checkpoints = <<>>
             THEN meta = meta0
             ELSE /\ Row.scrape_status = "in_progress"
                  /\ Row.last_page_scraped = Checkpoints[Len(Checkpoints)].page
                  /\ Row.next_page_to_fetch = Row.last_page_scraped + 1
                  /\ Row.total_posts_scraped = Len(all_posts_raw)

\* C35 witness: the upsert of a two-page full scrape raised, over a row
\* that an earlier run had finalized
C35_Witness ==
    /\ Len(Upserts) = 1 /\ Upserts[1].outcome = "error"
    /\ Len(Checkpoints) = 2
    /\ HasMetadata(meta0, TheUrl) /\ Row0.scrape_status = "complete"
    /\ Row.scrape_status = "in_progress"
    /\ Row.last_page_scraped = 2

\* the run left the paging loop at the max_pages check, after a page that
\* had records
StoppedByCeiling ==
    /\ mode = "full"
    /\ TruthyInt(max_pages) /\ pages_fetched >= max_pages
    /\ PageGets /= <<>>
    /\ PageGets[Len(PageGets)].outcome = "posts"

\* C36: a run stopped by the ceiling M that has finalized left the row
\* 'complete' with last_page_scraped = start + M - 1 and next_page_to_fetch
\* = start + M; and a resume (without update) with the filter of a
\* 'complete' row whose last page is L >= 1 is not rejected and requests
\* page L + 1 first.
C36_CeilingStopIsResumable ==
    /\ (StoppedByCeiling /\ (pc = "close" \/ (pc = "done" /\ result = "True")))
       => /\ Row.scrape_status = "complete"
          /\ Row.last_page_scraped = config.start_page + max_pages - 1
          /\ Row.next_page_to_fetch = config.start_page + max_pages
          /\ Row.search_query = config.search
    /\ (/\ config.resume /\ ~config.update
        /\ HasMetadata(meta0, TheUrl)
        /\ Row0.scrape_status = "complete"
        /\ Row0.last_page_scraped >= 1
        /\ Row0.search_query = config.search
        /\ pc \notin {"idle", "validate", "open", "resume"}
        /\ result /= "interrupted")
       => /\ mode = "full" => config.start_page = Row0.last_page_scraped + 1
          /\ pc = "done" /\ result = "False" => LastEvent.outcome = "error"
          /\ PageGets /= <<>> => PageGets[1].page = Row0.last_page_scraped + 1

\* C36 witness: the row says 'complete' after page 1 with one page of
\* records, and the resume with the same filter has requested page 2,
\* which has records
C36_Witness ==
    /\ config.resume /\ ~config.update
    /\ HasMetadata(meta0, TheUrl)
    /\ Row0.scrape_status = "complete"
    /\ Row0.last_page_scraped = 1
    /\ Row0.total_posts_scraped = PageSize
    /\ Row0.search_query = config.search
    /\ Len(PageGets) = 1
    /\ PageGets[1].page = 2 /\ PageGets[1].outcome = "posts"

\* C37: while an update run is fetching, the posts table and the progress
\* table are as they were before the run; an update run that a page
\* request failed has returned False with both tables as they were before
\* the run.
C37_UpdateWritesNothingBeforeLastPage ==
    /\ (mode = "update" /\ pc \in {"fetch", "yielded", "process", "insert"})
       => meta = meta0 /\ posts = posts0
    /\ (mode = "update" /\ pc = "done" /\ result /= "interrupted"
          /\ PageGets /= <<>>
          /\ PageGets[Len(PageGets)].outcome = "error")
       => /\ result = "False"
          /\ meta = meta0 /\ posts = posts0
          /\ Upserts = <<>> /\ Finalizes = <<>> /\ Checkpoints = <<>>

\* C37 witness: the second page request of an update run failed after
\* the first had brought records the table does not have in that version
C37_Witness ==
    /\ mode = "update" /\ pc = "done" /\ result = "False"
    /\ Len(PageGets) = 2
    /\ PageGets[1].outcome = "posts" /\ PageGets[2].outcome = "error"
    /\ insert_posts_batch(posts0, ProcessAll(all_posts_raw)) /= posts0
    /\ posts = posts0 /\ meta = meta0

====
